---- MODULE Spec2Model ----
(***************************************************************************)
(* Brain MCP bridge of pr-agent: the line-framed JSON-RPC transport        *)
(* (BrainMCPClient), the async wrapper (BrainClientWrapper) and the        *)
(* composer (prepare_brain_context).                                       *)
(*                                                                         *)
(* Threads: the event loop runs the composer; every asyncio.to_thread call *)
(* runs on a worker thread.  Worker 0 runs the BrainMCPClient constructor, *)
(* worker k (k in Calls) runs client.call_tool for the k-th facade call,   *)
(* and the closer runs client.close.  The child process is the             *)
(* environment: it may print any line, close a stream or exit at any time. *)
(***************************************************************************)
EXTENDS Integers, Sequences, FiniteSets, TLC

\* Bound: number of lines the child prints on its stdout during one run.
MaxLines == 3

\* Bound: number of unread lines the stdout pipe holds before the child's
\* next write blocks.
MaxPipe == 1

\* Bound: number of facade calls of one run that end by the timeout.
MaxTimeouts == 1

\* prepare_brain_context issues four facade calls, in this order.
NCalls == 4

None == "None"

\* bool(v) of a Python value written by its literal
PyTruthy(v) == v \notin {"None", "", "0", "0.0", "[]", "{}"}

Calls == 1..NCalls
Workers == 0..NCalls

VARIABLES
    mcp_enable,   \* settings.brain.mcp_enable
    changed,      \* pr_meta.changed_files is non-empty
    cpc,          \* position of the caller coroutine on the event loop
    call,         \* index of the facade call the composer is awaiting
    client,       \* BrainClientWrapper.client: "unset", "set" or "none"
    fut,          \* fut[k]: state of the k-th _call_tool_safe await
    res,          \* res[k]: value the k-th _call_tool_safe returned
    how,          \* how[k]: how the k-th _call_tool_safe ended
    w,            \* worker threads
    closer,       \* position of the thread running BrainMCPClient.close
    proc,         \* child process: "none", "running", "exited"
    pipe,         \* lines the child printed on stdout and nobody read yet
    nout,         \* number of lines the child has printed so far
    outEOF,       \* the child's end of stdout is closed
    errEOF,       \* the child's end of stderr is closed
    termReq,      \* terminate() was requested
    reaped,       \* wait() returned
    swallowed,    \* the close() in progress caught the OSError of a stream
    next_id,      \* BrainMCPClient._next_id
    written,      \* messages written to the child's stdin, in order
    cin, cout, cerr,   \* the client closed its stdin / stdout / stderr object
    status,       \* BrainContextResult.status
    instr,        \* BrainContextResult.extra_instructions
    file,         \* content of BRAIN_QODO_CONTEXT.md
    wrote,        \* outcome of context_file.write_text: "no", "ok", "failed"
    change_impact,     \* result of the change-impact call, by shape
    max_modules,       \* settings.brain.mcp_max_modules
    impacted_modules,  \* the list derived from change_impact
    run,          \* which invocation of prepare_brain_context this is
    prev,         \* what the invocation before this one left behind
    arg,          \* the argument a function studied on its own is applied to
    val           \* the value that function returned

vars == <<mcp_enable, changed, cpc, call, client, fut, res, how, w, closer,
          proc, pipe, nout, outEOF, errEOF, termReq, reaped, swallowed,
          next_id, written,
          cin, cout, cerr, status, instr, file, wrote,
          change_impact, max_modules, impacted_modules, run, prev, arg, val>>

childVars == <<proc, pipe, nout, outEOF, errEOF>>
loopVars == <<cpc, call, client, fut, res, how, status, instr, file, wrote>>
closeVars == <<closer, termReq, reaped, swallowed, cin, cout, cerr>>
deriveVars == <<change_impact, max_modules, impacted_modules>>
twiceVars == <<run, prev>>
fnVars == <<arg, val>>
cfgVars == <<mcp_enable, changed, deriveVars, twiceVars, fnVars>>

-----------------------------------------------------------------------------
\* Wire format

\* result members of a response, by shape: a content envelope whose text is
\* JSON, or one whose text is not
RawResults == {"env_json", "env_text"}

\* a line read from the child's stdout: unparseable, a JSON value that is
\* not an object, or an object (id 0 stands for an id nobody waits for, or
\* for no id)
Garbage == [kind |-> "garbage", id |-> 0, err |-> FALSE, result |-> "null"]
NonObject == [kind |-> "nonobj", id |-> 0, err |-> FALSE, result |-> "null"]
Response(i, r) == [kind |-> "obj", id |-> i, err |-> FALSE, result |-> r]
ErrorResponse(i) == [kind |-> "obj", id |-> i, err |-> TRUE, result |-> "null"]

Method(k) == IF k = 0 THEN "initialize" ELSE "tools/call"

\* call_tool: unwrap content[0].text
CallToolUnwrap(raw) ==
    CASE raw = "env_json" -> "data"
      [] raw = "env_text" -> "raw_text"
      [] OTHER -> None

\* impacted_modules derived from the change-impact result is non-empty:
\* "data" stands for a document that names modules; one that names none
\* takes the composer the way "raw_text" does
ImpactedModules(v) == v = "data"

\* a change-impact result by shape: absent (None), or a document that may
\* carry a "resolved_modules" list (one module_id per entry, "" for an entry
\* without one) and may carry a flat "impacted_modules" list
NoChangeImpact ==
    [absent |-> TRUE, hasResolved |-> FALSE, resolved |-> <<>>,
     hasFlat |-> FALSE, flat |-> <<>>]

\* the derivation of impacted_modules has not run
Underived ==
    /\ change_impact = NoChangeImpact
    /\ max_modules = 0
    /\ impacted_modules = <<>>

-----------------------------------------------------------------------------
NoLine == [id |-> 0, result |-> "null", err |-> FALSE]

\* a thread: where it is (pc), its request_id (rid), the value it loaded for
\* the increment (tmp), the number of requests it has written (sent), the
\* value it returned (ret) or the exception it raised (exc), and the line
\* that ended its reply loop (src)
IdleWorker ==
    [pc |-> "idle", rid |-> 0, tmp |-> 0, sent |-> 0, ret |-> None,
     exc |-> "", src |-> NoLine]

\* the thread raises exception e
Raise(k, e) == [w EXCEPT ![k].pc = "raised", ![k].exc = e]

\* no invocation came before this one
NoPrev == [file |-> "absent", client |-> "unset", wrote |-> "no"]

FirstRun == run = 1 /\ prev = NoPrev

\* no function is studied on its own
NoFunction == arg = "none" /\ val = "none"

\* the state before BrainClientWrapper() is constructed
FreshRun ==
    /\ call = 0
    /\ client = "unset"
    /\ fut = [k \in Calls |-> "unset"]
    /\ res = [k \in Calls |-> None]
    /\ how = [k \in Calls |-> "unset"]
    /\ w = [k \in Workers |-> IdleWorker]
    /\ closer = "idle"
    /\ proc = "none"
    /\ pipe = <<>>
    /\ nout = 0
    /\ outEOF = FALSE
    /\ errEOF = FALSE
    /\ termReq = FALSE
    /\ reaped = FALSE
    /\ swallowed = FALSE
    /\ next_id = 1
    /\ written = <<>>
    /\ cin = FALSE
    /\ cout = FALSE
    /\ cerr = FALSE
    /\ status = "unset"
    /\ instr = "unset"
    /\ wrote = "no"

\* the same, with no context file in the repository
Fresh == FreshRun /\ file = "absent"

\* prepare_brain_context is called
Init ==
    /\ mcp_enable \in BOOLEAN
    /\ changed \in BOOLEAN
    /\ cpc = "start"
    /\ Fresh
    /\ Underived
    /\ FirstRun
    /\ NoFunction

-----------------------------------------------------------------------------
\* The child process (environment)

\* ids of the requests some thread is waiting a reply for
AwaitedIds == {w[k].rid : k \in {j \in Workers : w[j].pc \in {"read", "rblock"}}}

\* what the child may print: noise, or a reply to a request that is awaited
Lines == {Garbage, NonObject, Response(0, "env_json")}
         \cup {Response(i, r) : i \in AwaitedIds, r \in RawResults}
         \cup {ErrorResponse(i) : i \in AwaitedIds}

ChildEmit ==
    /\ proc = "running"
    /\ ~outEOF
    /\ nout < MaxLines
    /\ Len(pipe) < MaxPipe
    /\ nout' = nout + 1
    /\ \E l \in Lines : pipe' = Append(pipe, l)
    /\ UNCHANGED <<proc, outEOF, errEOF, cfgVars, loopVars, closeVars, w,
                   next_id, written>>

\* the child closes its stdout and lives on
ChildCloseStdout ==
    /\ proc = "running"
    /\ ~outEOF
    /\ outEOF' = TRUE
    /\ UNCHANGED <<proc, pipe, nout, errEOF, cfgVars, loopVars, closeVars, w,
                   next_id, written>>

\* the child exits by itself or on SIGTERM: all its stream ends are closed
ChildExit ==
    /\ proc = "running"
    /\ proc' = "exited"
    /\ outEOF' = TRUE
    /\ errEOF' = TRUE
    /\ UNCHANGED <<pipe, nout, cfgVars, loopVars, closeVars, w, next_id, written>>

-----------------------------------------------------------------------------
\* Worker threads: BrainMCPClient.__init__/_start (worker 0) and
\* BrainMCPClient.call_tool (workers 1..NCalls), both through _send_request

\* subprocess.Popen in _start: the binary starts, or Popen raises
Spawn ==
    /\ w[0].pc = "spawn"
    /\ \/ /\ proc' = "running"
          /\ w' = [w EXCEPT ![0].pc = "chk"]
       \/ /\ proc' = proc
          /\ w' = Raise(0, "OSError: Popen")
    /\ UNCHANGED <<pipe, nout, outEOF, errEOF, cfgVars, loopVars, closeVars,
                   next_id, written>>

\* _send_request: the poll() guard, then request_id = self._next_id
SendCheck(k) ==
    /\ w[k].pc = "chk"
    /\ IF proc # "running"
       THEN w' = Raise(k, "RuntimeError: not running")
       ELSE w' = [w EXCEPT ![k].pc = "incr", ![k].rid = next_id]
    /\ UNCHANGED <<childVars, cfgVars, loopVars, closeVars, next_id, written>>

\* self._next_id += 1, the load
IncRead(k) ==
    /\ w[k].pc = "incr"
    /\ w' = [w EXCEPT ![k].pc = "incw", ![k].tmp = next_id]
    /\ UNCHANGED <<childVars, cfgVars, loopVars, closeVars, next_id, written>>

\* self._next_id += 1, the store
IncWrite(k) ==
    /\ w[k].pc = "incw"
    /\ next_id' = w[k].tmp + 1
    /\ w' = [w EXCEPT ![k].pc = "write", ![k].tmp = 0]
    /\ UNCHANGED <<childVars, cfgVars, loopVars, closeVars, written>>

\* _write_line: write and flush raise on a closed stdin object or a dead child
WriteFails == cin \/ proc # "running"

WriteRequest(k) ==
    /\ w[k].pc = "write"
    /\ IF WriteFails
       THEN /\ w' = Raise(k, "write failed")
            /\ written' = written
       ELSE /\ w' = [w EXCEPT ![k].pc = "read", ![k].sent = @ + 1]
            /\ written' = Append(written, [id |-> w[k].rid, method |-> Method(k)])
    /\ UNCHANGED <<childVars, cfgVars, loopVars, closeVars, next_id>>

\* Matches without the comparison of ids
Matches_AnyObject(line, rid) == line.kind = "obj"

\* response.get("id") == request_id
Matches(line, rid) == line.kind = "obj" /\ line.id = rid

\* the value _send_request returns to its caller
SendRequestResult(k, line) == IF k = 0 THEN None ELSE CallToolUnwrap(line.result)

\* IsError letting an error response through
IsError_Ignored(line) == FALSE

\* response.get("error") is non-empty
IsError(line) == line.err

\* AfterLine taking any line as the response to initialize
AfterLine_NotifiesOnAnyLine(k, line) ==
    CASE line.kind = "nonobj" -> "raised"
      [] k = 0 -> "notify"
      [] line.kind = "garbage" -> "read"
      [] ~Matches(line, w[k].rid) -> "read"
      [] IsError(line) -> "raised"
      [] OTHER -> "returned"

\* AfterLine sending the request again after an error response
AfterLine_RetriesOnError(k, line) ==
    CASE line.kind = "garbage" -> "read"
      [] line.kind = "nonobj" -> "raised"
      [] ~Matches(line, w[k].rid) -> "read"
      [] IsError(line) -> "write"
      [] OTHER -> IF k = 0 THEN "notify" ELSE "returned"

\* where one iteration of the reply loop leaves the thread
AfterLine(k, line) ==
    CASE line.kind = "garbage" -> "read"      \* JSONDecodeError: continue
      [] line.kind = "nonobj" -> "raised"     \* .get on a non-object
      [] ~Matches(line, w[k].rid) -> "read"
      [] IsError(line) -> "raised"
      [] OTHER -> IF k = 0 THEN "notify" ELSE "returned"

\* the exception a line makes the reply loop raise: AttributeError from
\* .get on a non-object, or RuntimeError with the message of the error member
LineException(line) ==
    IF line.kind = "nonobj" THEN "AttributeError" ELSE "RuntimeError: server message"

\* one iteration of the reply loop whose readline() returns at once
ReadLine(k) ==
    /\ w[k].pc \in {"read", "rblock"}
    /\ IF cout
       THEN \* readline() on a closed file object raises ValueError
            /\ w' = Raise(k, "ValueError: closed file")
            /\ pipe' = pipe
       ELSE IF pipe # <<>>
       THEN LET line == Head(pipe)
                pc2 == AfterLine(k, line)
            IN  /\ pipe' = Tail(pipe)
                /\ w' = [w EXCEPT ![k] =
                          IF pc2 \in {"notify", "returned"}
                          THEN [@ EXCEPT !.pc = pc2,
                                         !.ret = SendRequestResult(k, line),
                                         !.src = [id |-> line.id, result |-> line.result,
                                                  err |-> line.err]]
                          ELSE IF pc2 = "raised"
                          THEN [@ EXCEPT !.pc = pc2,
                                         !.exc = LineException(line),
                                         !.src = [id |-> line.id, result |-> line.result,
                                                  err |-> line.err]]
                          ELSE [@ EXCEPT !.pc = pc2]]
       ELSE \* zero-length read
            /\ outEOF
            /\ pipe' = pipe
            /\ w' = [w EXCEPT ![k].pc = "eof"]
    /\ UNCHANGED <<proc, nout, outEOF, errEOF, cfgVars, loopVars, closeVars,
                   next_id, written>>

\* readline() finds the pipe empty and open: the thread sleeps in the read,
\* holding the lock of the buffered stdout object.  Only stdout.close() can
\* tell a sleeping reader from one about to read, so the step is taken once
\* close() has reached it.
ReadBlock(k) ==
    /\ w[k].pc = "read"
    /\ closer = "c_out"
    /\ ~cout /\ pipe = <<>> /\ ~outEOF
    /\ w' = [w EXCEPT ![k].pc = "rblock"]
    /\ UNCHANGED <<childVars, cfgVars, loopVars, closeVars, next_id, written>>

\* self.proc.stderr.read() returns at end of stream (or raises on a closed
\* object); the RuntimeError follows
StderrRead(k) ==
    /\ w[k].pc \in {"eof", "eblock"}
    /\ cerr \/ errEOF
    /\ w' = Raise(k, IF cerr THEN "ValueError: closed file"
                     ELSE "RuntimeError: exited before replying")
    /\ UNCHANGED <<childVars, cfgVars, loopVars, closeVars, next_id, written>>

\* stderr.read() with the child's stderr still open: the thread sleeps in
\* the read, holding the lock of the buffered stderr object (observable by
\* stderr.close() only)
StderrBlock(k) ==
    /\ w[k].pc = "eof"
    /\ closer = "c_err"
    /\ ~cerr /\ ~errEOF
    /\ w' = [w EXCEPT ![k].pc = "eblock"]
    /\ UNCHANGED <<childVars, cfgVars, loopVars, closeVars, next_id, written>>

\* _send_notification("notifications/initialized") at the end of _start
Notify ==
    /\ w[0].pc = "notify"
    /\ IF WriteFails
       THEN /\ w' = Raise(0, "write failed")
            /\ written' = written
       ELSE /\ w' = [w EXCEPT ![0].pc = "constructed"]
            /\ written' = Append(written, [id |-> 0, method |-> "notifications/initialized"])
    /\ UNCHANGED <<childVars, cfgVars, loopVars, closeVars, next_id>>

-----------------------------------------------------------------------------
\* BrainClientWrapper._call_tool_safe (event loop side)

\* CallSafeResult without the `except Exception` clause
CallSafeResult_Propagates(outcome, ret) ==
    CASE outcome = "returned" -> ret
      [] outcome = "raised" -> "Raise"
      [] OTHER -> None

\* what _call_tool_safe returns for each way the awaited call ends
CallSafeResult(outcome, ret) == IF outcome = "returned" THEN ret ELSE None

\* Accepts with a future that takes an outcome after its cancellation
Accepts_AfterCancel(k) == fut[k] \in {"pending", "done"}

\* the future of call k still accepts the worker's outcome: after the
\* timeout it is cancelled and whatever the thread produces is dropped
Accepts(k) == fut[k] = "pending"

\* a thread that ended and whose outcome has been consumed
EndedWorker == [IdleWorker EXCEPT !.pc = "ended"]

TimedOut == {j \in Calls : how[j] = "timeout"}

\* call k can end with outcome o: call_tool returned, it raised, or
\* wait_for's timeout expired first
CanEnd(k, o) ==
    IF o = "timeout"
    THEN fut[k] = "pending" /\ Cardinality(TimedOut) < MaxTimeouts
    ELSE Accepts(k) /\ w[k].pc = o

Outcomes == {"returned", "raised", "timeout"}

\* the threads after call k ended with outcome o.  On a timeout a work item
\* that no pool thread has picked up yet may be cancelled (cancel); a
\* running thread cannot be and runs on.
WorkersAfter(k, o, cancel) ==
    IF o # "timeout" THEN [w EXCEPT ![k] = EndedWorker]
    ELSE IF cancel /\ w[k].pc = "chk" THEN [w EXCEPT ![k].pc = "cancelled"]
    ELSE w

\* the thread of a call the event loop no longer awaits ends: the outcome
\* is handed to the call's future, which takes it only while it is pending
Discard(k) ==
    /\ fut[k] = "done"
    /\ w[k].pc \in {"returned", "raised"}
    /\ IF Accepts(k)
       THEN res' = [res EXCEPT ![k] = CallSafeResult(w[k].pc, w[k].ret)]
       ELSE res' = res
    /\ w' = [w EXCEPT ![k] = EndedWorker]
    /\ UNCHANGED <<childVars, cfgVars, closeVars, next_id, written,
                   cpc, call, client, fut, how, status, instr, file, wrote>>

-----------------------------------------------------------------------------
\* BrainClientWrapper.__aenter__ / __aexit__

\* ClientAfterInit keeping a client whose constructor raised
ClientAfterInit_Keeps(pc0) == "set"

\* __aenter__: the client the wrapper holds once the constructor thread ended
ClientAfterInit(pc0) == IF pc0 = "constructed" THEN "set" ELSE "none"

\* __aexit__: close() is submitted only `if self.client`
ExitStartsClose(c) == c = "set"

-----------------------------------------------------------------------------
\* prepare_brain_context (event loop)

\* The texts the composer produces, each named by a token, and the phrases
\* of each that the claims speak of
Phrases(text) ==
    CASE text = "stub" ->
           {"# Brain MCP Context Unavailable", "could not be queried",
            "Reason: Brain MCP client failed to initialize",
            "standard review practices"}
      [] text = "stub_exc" ->
           {"# Brain MCP Context Unavailable", "could not be queried",
            "Reason: str(e)", "standard review practices"}
      [] text = "handle_unavailable" ->
           {"Brain MCP context is UNAVAILABLE", "standard best practices",
            "NOT make claims about CI status"}
      [] text = "snapshot_unavailable" ->
           {"Brain MCP snapshot for PR #", "Brain MCP is unavailable"}
      [] text = "snapshot" ->
           {"Brain MCP snapshot for PR #", "**Overall codebase status**: UPPER",
            "impacted module ids"}
      [] text = "v2_unavailable" ->
           {"Brain MCP context is UNAVAILABLE", "standard best practices"}
      [] text = "v2_instructions" ->
           {"Brain MCP context for this PR:", "Overall codebase status"}
      [] OTHER -> {}

\* BridgeDisabled ignoring the flag
BridgeDisabled_Ignored(enable) == FALSE

\* `if not mcp_enable`
BridgeDisabled(enable) == ~enable

\* the stub report for a reason: the fixed text of the failed connection, or
\* the text of the exception caught at the top level
StubContent(reason) ==
    IF reason = "Brain MCP client failed to initialize" THEN "stub" ELSE "stub_exc"

\* StubWritten without the write_text call
StubWritten_Never(wfails, reason) == file

\* StubWritten opening the file for appending: new text after the old
StubWritten_Appends(wfails, reason) ==
    IF wfails THEN file
    ELSE IF file = "absent" THEN StubContent(reason) ELSE "old text + stub"

\* _handle_unavailable: context_file.write_text(stub_content) replaces the
\* content; a failure is swallowed and leaves the file as it was
StubWritten(wfails, reason) == IF wfails THEN file ELSE StubContent(reason)

\* WriteOutcome of a path that never calls write_text
WriteOutcome_Skipped(sofar, wfails) == sofar

\* the record of write_text calls of one invocation: none yet ("no"), one
\* that succeeded or failed, or more than one
WriteOutcome(sofar, wfails) ==
    IF sofar # "no" THEN "twice" ELSE IF wfails THEN "failed" ELSE "ok"

\* UnavailableInstructions returning the empty string
UnavailableInstructions_Empty == ""

\* _handle_unavailable: the instructions text
UnavailableInstructions == "handle_unavailable"

\* Catches for a handler of OSError only
Catches_OnlyOSError(clause, exc) == exc = "OSError"

\* `except <clause>` catches exception exc: Exception is the base of every
\* exception the composer can see
Catches(clause, exc) == clause = "Exception" \/ clause = exc

\* HandleUnavailableStatus returning ok
HandleUnavailableStatus_Ok(wfails) == "ok"

\* HandleUnavailableStatus without the try around write_text
HandleUnavailableStatus_Escapes(wfails) ==
    IF wfails THEN "exception" ELSE "unavailable"

\* _handle_unavailable: the status returned, whether or not the write failed
HandleUnavailableStatus(wfails) == "unavailable"

\* _handle_unavailable(context_file, reason)
HandleUnavailable(reason) ==
    \E wfails \in BOOLEAN :
        /\ file' = StubWritten(wfails, reason)
        /\ wrote' = WriteOutcome(wrote, wfails)
        /\ status' = HandleUnavailableStatus(wfails)
        /\ instr' = UnavailableInstructions

\* the call _generate_markdown_v2(...) passes seven positional arguments
MarkdownArgs == 7

\* def _generate_markdown_v2 takes five parameters
MarkdownParams == 5

\* calling a function with a number of positional arguments other than its
\* number of parameters raises TypeError
RenderRaises == MarkdownArgs # MarkdownParams

\* _generate_markdown_v2, by its first branch
MarkdownV2(status_overview) ==
    IF ~PyTruthy(status_overview) THEN "snapshot_unavailable" ELSE "snapshot"

\* _generate_instructions_v2, by its first branch
InstructionsV2(status_overview) ==
    IF ~PyTruthy(status_overview) THEN "v2_unavailable" ELSE "v2_instructions"

\* status = "ok" if status_overview else "partial"
StatusOf(status_overview) == IF PyTruthy(status_overview) THEN "ok" ELSE "partial"

\* mcp_enable test; `async with BrainClientWrapper()` submits the constructor
Start ==
    /\ cpc = "start"
    /\ IF BridgeDisabled(mcp_enable)
       THEN /\ status' = "unavailable"
            /\ instr' = ""
            /\ cpc' = "done"
            /\ w' = w
       ELSE /\ cpc' = "aenter"
            /\ w' = [w EXCEPT ![0].pc = "spawn"]
            /\ UNCHANGED <<status, instr>>
    /\ UNCHANGED <<childVars, cfgVars, closeVars, next_id, written,
                   call, client, fut, res, how, file, wrote>>

\* __aenter__ returns; `if not client.client` returns the stub through
\* __aexit__, else the first facade call (get_status_overview) is awaited:
\* _call_tool_safe submits call_tool to a thread since the client is set
AEnterDone ==
    /\ cpc = "aenter"
    /\ w[0].pc \in {"constructed", "raised"}
    /\ client' = ClientAfterInit(w[0].pc)
    /\ IF client' # "set"
       THEN /\ HandleUnavailable("Brain MCP client failed to initialize")
            /\ cpc' = "done"
            /\ UNCHANGED <<call, fut, w>>
       ELSE /\ call' = 1
            /\ cpc' = "await"
            /\ fut' = [fut EXCEPT ![1] = "pending"]
            /\ w' = [w EXCEPT ![1].pc = "chk"]
            /\ UNCHANGED <<status, instr, file, wrote>>
    /\ UNCHANGED <<childVars, cfgVars, closeVars, next_id, written, res, how>>

\* NextCall going from change-impact straight to bundle suggestions
NextCall_SkipsHotspots(k, r2, c) ==
    CASE k = 1 -> 2
      [] k = 2 -> IF ImpactedModules(r2) \/ c THEN 4 ELSE 0
      [] OTHER -> 0

\* the facade call after call k, or 0 when the composer goes on to render;
\* r2 is the change-impact result, c tells whether changed_files is non-empty
NextCall(k, r2, c) ==
    CASE k = 1 -> 2
      [] k = 2 -> 3
      [] k = 3 -> IF ImpactedModules(r2) \/ c THEN 4 ELSE 0
      [] OTHER -> 0

\* the awaited _call_tool_safe returns and the composer runs to its next
\* await: the next facade call is submitted; after the last one the report
\* is rendered.  When the render raises, the exception leaves the
\* `async with`; otherwise the report is written and the result returned
\* from inside it.  Either way __aexit__ submits close().
AfterCall ==
    /\ cpc = "await"
    /\ \E o \in Outcomes, cancel \in BOOLEAN :
         /\ CanEnd(call, o)
         /\ cancel => (o = "timeout" /\ w[call].pc = "chk")
         /\ LET res1 == [res EXCEPT ![call] = CallSafeResult(o, w[call].ret)]
                w1 == WorkersAfter(call, o, cancel)
                n == NextCall(call, res1[2], changed)
            IN  /\ res' = res1
                /\ how' = [how EXCEPT ![call] = o]
                /\ IF n # 0
                   THEN /\ call' = n
                        /\ fut' = [fut EXCEPT ![call] = "done", ![n] = "pending"]
                        /\ w' = [w1 EXCEPT ![n].pc = "chk"]
                        /\ UNCHANGED <<cpc, closer, status, instr, file, wrote>>
                   ELSE /\ fut' = [fut EXCEPT ![call] = "done"]
                        /\ w' = w1
                        /\ closer' = "c_in"
                        /\ call' = call
                        /\ IF RenderRaises
                           THEN /\ cpc' = "aexit"
                                /\ UNCHANGED <<status, instr, file, wrote>>
                           ELSE /\ cpc' = "aexit_ret"
                                /\ \E wfails \in BOOLEAN :
                                     /\ file' = IF wfails THEN file
                                                ELSE MarkdownV2(res1[1])
                                     /\ wrote' = WriteOutcome(wrote, wfails)
                                /\ status' = StatusOf(res1[1])
                                /\ instr' = InstructionsV2(res1[1])
    /\ UNCHANGED <<childVars, cfgVars, termReq, reaped, swallowed, cin, cout, cerr,
                   next_id, written, client>>

\* __aexit__ returned: a pending exception reaches `except Exception`,
\* which returns _handle_unavailable; else the result built is returned
AExitDone ==
    /\ cpc \in {"aexit", "aexit_ret"}
    /\ closer = "c_done"
    /\ IF cpc = "aexit"
       THEN IF Catches("Exception", "TypeError")
            THEN HandleUnavailable("str(e)")
            ELSE /\ status' = "exception"
                 /\ UNCHANGED <<instr, file, wrote>>
       ELSE UNCHANGED <<status, instr, file, wrote>>
    /\ cpc' = "done"
    /\ UNCHANGED <<childVars, cfgVars, closeVars, w, next_id, written,
                   call, client, fut, res, how>>

-----------------------------------------------------------------------------
\* BrainMCPClient.close, on its own thread

ReaderAsleep == \E k \in Workers : w[k].pc = "rblock"
StderrReaderAsleep == \E k \in Workers : w[k].pc = "eblock"

\* stdin.close() flushes first: with the child gone and a failed write left
\* in the buffer the flush raises BrokenPipeError; closing a closed object
\* does nothing
StdinCloseOutcomes ==
    IF cin \/ proc = "running" THEN {"closed"} ELSE {"closed", "oserror"}

\* AfterStreamClose without the `except OSError` clause
AfterStreamClose_Uncaught(outcome, nxt) ==
    IF outcome = "oserror" THEN "c_raised" ELSE nxt

\* AfterStreamClose leaving the loop over the streams at the first failure
AfterStreamClose_StopsClosing(outcome, nxt) ==
    IF outcome = "oserror" THEN "c_term" ELSE nxt

\* try: stream.close() / except OSError: pass -- close() goes on to the
\* next stream either way
AfterStreamClose(outcome, nxt) == nxt

CloseStdin ==
    /\ closer = "c_in"
    /\ cin' = TRUE
    /\ \E o \in StdinCloseOutcomes :
         /\ closer' = AfterStreamClose(o, "c_out")
         /\ swallowed' = (swallowed \/ (o = "oserror" /\ closer' # "c_raised"))
    /\ UNCHANGED <<childVars, cfgVars, loopVars, w, next_id, written,
                   termReq, reaped, cout, cerr>>

\* stdout.close() takes the lock of the buffered object, which a thread
\* asleep in readline() holds
CloseStdout ==
    /\ closer = "c_out"
    /\ ~ReaderAsleep
    /\ cout' = TRUE
    /\ closer' = AfterStreamClose("closed", "c_err")
    /\ UNCHANGED <<childVars, cfgVars, loopVars, w, next_id, written,
                   termReq, reaped, swallowed, cin, cerr>>

CloseStderr ==
    /\ closer = "c_err"
    /\ ~StderrReaderAsleep
    /\ cerr' = TRUE
    /\ closer' = AfterStreamClose("closed", "c_term")
    /\ UNCHANGED <<childVars, cfgVars, loopVars, w, next_id, written,
                   termReq, reaped, swallowed, cin, cout>>

\* proc.terminate(): SIGTERM unless the child is already gone
Terminate ==
    /\ closer = "c_term"
    /\ termReq' = (termReq \/ proc = "running")
    /\ closer' = "c_wait"
    /\ UNCHANGED <<childVars, cfgVars, loopVars, w, next_id, written,
                   reaped, swallowed, cin, cout, cerr>>

\* proc.wait() returns once the child has exited
Wait ==
    /\ closer = "c_wait"
    /\ proc = "exited"
    /\ reaped' = TRUE
    /\ closer' = "c_done"
    /\ swallowed' = FALSE
    /\ UNCHANGED <<childVars, cfgVars, loopVars, w, next_id, written,
                   termReq, cin, cout, cerr>>

-----------------------------------------------------------------------------
ChildStep == ChildEmit \/ ChildCloseStdout \/ ChildExit

WorkerStep ==
    \/ Spawn
    \/ Notify
    \/ \E k \in Workers :
          \/ SendCheck(k)
          \/ IncRead(k)
          \/ IncWrite(k)
          \/ WriteRequest(k)
          \/ ReadLine(k)
          \/ ReadBlock(k)
          \/ StderrRead(k)
          \/ StderrBlock(k)

CloseStep == CloseStdin \/ CloseStdout \/ CloseStderr \/ Terminate \/ Wait

AdapterStep == \E k \in Calls : Discard(k)

ComposerStep == Start \/ AEnterDone \/ AfterCall \/ AExitDone

Next == ChildStep \/ WorkerStep \/ CloseStep \/ AdapterStep \/ ComposerStep

Spec == Init /\ [][Next]_vars

-----------------------------------------------------------------------------
\* Two facade calls awaited together on one wrapper:
\*   async with BrainClientWrapper() as client:
\*       await asyncio.gather(client.get_status_overview(),
\*                            client.get_change_impact(...))

\* followed, once the scope has exited, by a second client.close()

GatherCalls == {1, 2}

InitGather ==
    /\ mcp_enable = TRUE
    /\ changed = FALSE
    /\ cpc = "g_start"
    /\ Fresh
    /\ Underived
    /\ FirstRun
    /\ NoFunction

GStart ==
    /\ cpc = "g_start"
    /\ cpc' = "g_aenter"
    /\ w' = [w EXCEPT ![0].pc = "spawn"]
    /\ UNCHANGED <<childVars, cfgVars, closeVars, next_id, written,
                   call, client, fut, res, how, status, instr, file, wrote>>

\* __aenter__ returns and both _call_tool_safe coroutines start: each
\* returns None at once without a client, else submits call_tool to a thread
GAEnterDone ==
    /\ cpc = "g_aenter"
    /\ w[0].pc \in {"constructed", "raised"}
    /\ client' = ClientAfterInit(w[0].pc)
    /\ cpc' = "g_wait"
    /\ IF client' = "set"
       THEN /\ fut' = [k \in Calls |-> IF k \in GatherCalls THEN "pending" ELSE fut[k]]
            /\ w' = [k \in Workers |-> IF k \in GatherCalls
                                       THEN [w[k] EXCEPT !.pc = "chk"] ELSE w[k]]
            /\ UNCHANGED <<res, how>>
       ELSE /\ fut' = [k \in Calls |-> IF k \in GatherCalls THEN "done" ELSE fut[k]]
            /\ res' = [k \in Calls |-> IF k \in GatherCalls
                                       THEN CallSafeResult("noclient", None) ELSE res[k]]
            /\ how' = [k \in Calls |-> IF k \in GatherCalls THEN "noclient" ELSE how[k]]
            /\ w' = w
    /\ UNCHANGED <<childVars, cfgVars, closeVars, next_id, written,
                   call, status, instr, file, wrote>>

\* one of the two awaited _call_tool_safe coroutines returns
GCallEnds ==
    /\ cpc = "g_wait"
    /\ \E k \in GatherCalls, o \in Outcomes, cancel \in BOOLEAN :
         /\ CanEnd(k, o)
         /\ cancel => (o = "timeout" /\ w[k].pc = "chk")
         /\ res' = [res EXCEPT ![k] = CallSafeResult(o, w[k].ret)]
         /\ how' = [how EXCEPT ![k] = o]
         /\ fut' = [fut EXCEPT ![k] = "done"]
         /\ w' = WorkersAfter(k, o, cancel)
    /\ UNCHANGED <<childVars, cfgVars, closeVars, next_id, written,
                   cpc, call, client, status, instr, file, wrote>>

\* gather is complete: the scope exits through __aexit__
GExit ==
    /\ cpc = "g_wait"
    /\ \A k \in GatherCalls : fut[k] = "done"
    /\ IF ExitStartsClose(client)
       THEN closer' = "c_in" /\ cpc' = "g_aexit"
       ELSE closer' = closer /\ cpc' = "g_done"
    /\ UNCHANGED <<childVars, cfgVars, termReq, reaped, swallowed, cin, cout, cerr, w,
                   next_id, written, call, client, fut, res, how, status,
                   instr, file, wrote>>

GAExitDone ==
    /\ cpc = "g_aexit"
    /\ closer = "c_done"
    /\ cpc' = "g_done"
    /\ UNCHANGED <<childVars, cfgVars, closeVars, w, next_id, written,
                   call, client, fut, res, how, status, instr, file, wrote>>

\* close() is called again on the client that __aexit__ closed
GCloseAgain ==
    /\ cpc = "g_done"
    /\ client = "set"
    /\ closer = "c_done"
    /\ closer' = "c_in"
    /\ cpc' = "g_close2"
    /\ UNCHANGED <<childVars, cfgVars, termReq, reaped, swallowed, cin, cout, cerr, w,
                   next_id, written, call, client, fut, res, how, status,
                   instr, file, wrote>>

\* the second close() returned
GCloseAgainDone ==
    /\ cpc = "g_close2"
    /\ closer = "c_done"
    /\ cpc' = "g_done2"
    /\ UNCHANGED <<childVars, cfgVars, closeVars, w, next_id, written,
                   call, client, fut, res, how, status, instr, file, wrote>>

GatherStep ==
    \/ GStart \/ GAEnterDone \/ GCallEnds \/ GExit \/ GAExitDone
    \/ GCloseAgain \/ GCloseAgainDone

NextGather == ChildStep \/ WorkerStep \/ CloseStep \/ AdapterStep \/ GatherStep

SpecGather == InitGather /\ [][NextGather]_vars

-----------------------------------------------------------------------------
\* prepare_brain_context called twice on the same repository with the bridge
\* enabled: the second call starts from what the first left in the file

InitTwice ==
    /\ mcp_enable = TRUE
    /\ changed = FALSE
    /\ cpc = "start"
    /\ Fresh
    /\ Underived
    /\ FirstRun
    /\ NoFunction

\* the first call has returned and the second is made
Rerun ==
    /\ cpc = "done"
    /\ run = 1
    /\ run' = 2
    /\ prev' = [file |-> file, client |-> client, wrote |-> wrote]
    /\ cpc' = "start"
    /\ call' = 0
    /\ client' = "unset"
    /\ fut' = [k \in Calls |-> "unset"]
    /\ res' = [k \in Calls |-> None]
    /\ how' = [k \in Calls |-> "unset"]
    /\ w' = [k \in Workers |-> IdleWorker]
    /\ closer' = "idle"
    /\ proc' = "none"
    /\ pipe' = <<>>
    /\ nout' = 0
    /\ outEOF' = FALSE
    /\ errEOF' = FALSE
    /\ termReq' = FALSE
    /\ reaped' = FALSE
    /\ swallowed' = FALSE
    /\ next_id' = 1
    /\ written' = <<>>
    /\ cin' = FALSE
    /\ cout' = FALSE
    /\ cerr' = FALSE
    /\ status' = "unset"
    /\ instr' = "unset"
    /\ wrote' = "no"
    /\ UNCHANGED <<mcp_enable, changed, deriveVars, fnVars, file>>

NextTwice == Next \/ Rerun

SpecTwice == InitTwice /\ [][NextTwice]_vars

-----------------------------------------------------------------------------
\* The chat handlers handle_status_query and handle_next_actions_query: one
\* facade call on a wrapper of their own, formatted into a reply

ChatHandlers == {"handle_status_query", "handle_next_actions_query"}

\* what the payload the facade call returned looks like to the handler: no
\* payload, a JSON object with the documented fields, a falsy value ({}, [],
\* 0, ""), or a truthy value the formatters cannot read (not an object, or
\* an object whose fields have other types)
Shapes(r) ==
    CASE r = None -> {"none"}
      [] r = "raw_text" -> {"object"}
      [] OTHER -> {"object", "falsy", "malformed"}

\* `if not overview` / `if not next_actions`
Truthy(shape) == shape \in {"object", "malformed"}

\* _build_headline, _format_status_overview and _format_next_actions call
\* .get and .upper on what they are given
FormatRaises(shape) == shape = "malformed"

\* HandlerStatus of a handler that does not test the payload
HandlerStatus_AlwaysOk(shape) == "ok"

\* the status of the reply the handler builds from the payload
HandlerStatus(shape) == IF Truthy(shape) THEN "ok" ELSE "unavailable"

InitChat ==
    /\ mcp_enable \in BOOLEAN
    /\ changed = FALSE
    /\ cpc = "h_start"
    /\ Fresh
    /\ Underived
    /\ FirstRun
    /\ arg \in ChatHandlers
    /\ val = "none"

\* the handler is called: `if not settings.brain.get("mcp_enable", False)`
HStart ==
    /\ cpc = "h_start"
    /\ IF BridgeDisabled(mcp_enable)
       THEN /\ status' = "unavailable"
            /\ cpc' = "h_done"
            /\ w' = w
       ELSE /\ cpc' = "h_aenter"
            /\ w' = [w EXCEPT ![0].pc = "spawn"]
            /\ status' = status
    /\ UNCHANGED <<childVars, cfgVars, closeVars, next_id, written,
                   call, client, fut, res, how, instr, file, wrote>>

\* __aenter__ returns; `if not client.client` returns unavailable, else the
\* facade call is awaited
HAEnterDone ==
    /\ cpc = "h_aenter"
    /\ w[0].pc \in {"constructed", "raised"}
    /\ client' = ClientAfterInit(w[0].pc)
    /\ IF client' # "set"
       THEN /\ status' = "unavailable"
            /\ cpc' = "h_done"
            /\ UNCHANGED <<call, fut, w>>
       ELSE /\ call' = 1
            /\ cpc' = "h_await"
            /\ fut' = [fut EXCEPT ![1] = "pending"]
            /\ w' = [w EXCEPT ![1].pc = "chk"]
            /\ status' = status
    /\ UNCHANGED <<childVars, cfgVars, closeVars, next_id, written, res, how,
                   instr, file, wrote>>

\* the awaited facade call returns: without a payload the handler returns
\* unavailable, else it formats the payload and returns ok; a formatter that
\* raises leaves the `async with` with the exception.  __aexit__ submits
\* close() either way.
HAfterCall ==
    /\ cpc = "h_await"
    /\ \E o \in Outcomes, cancel \in BOOLEAN :
         /\ CanEnd(1, o)
         /\ cancel => (o = "timeout" /\ w[1].pc = "chk")
         /\ LET r == CallSafeResult(o, w[1].ret)
            IN  /\ res' = [res EXCEPT ![1] = r]
                /\ \E shape \in Shapes(r) :
                     /\ val' = shape
                     /\ IF Truthy(shape) /\ FormatRaises(shape)
                        THEN cpc' = "h_aexit" /\ status' = status
                        ELSE cpc' = "h_aexit_ret" /\ status' = HandlerStatus(shape)
         /\ how' = [how EXCEPT ![1] = o]
         /\ fut' = [fut EXCEPT ![1] = "done"]
         /\ w' = WorkersAfter(1, o, cancel)
    /\ closer' = "c_in"
    /\ UNCHANGED <<childVars, mcp_enable, changed, deriveVars, twiceVars, arg,
                   termReq, reaped, swallowed, cin, cout, cerr, next_id, written, call,
                   client, instr, file, wrote>>

\* __aexit__ returned: a pending exception reaches `except Exception` and
\* the handler returns unavailable; else the reply built is returned
HAExitDone ==
    /\ cpc \in {"h_aexit", "h_aexit_ret"}
    /\ closer = "c_done"
    /\ IF cpc = "h_aexit"
       THEN status' = IF Catches("Exception", "AttributeError")
                      THEN "unavailable" ELSE "exception"
       ELSE status' = status
    /\ cpc' = "h_done"
    /\ UNCHANGED <<childVars, cfgVars, closeVars, w, next_id, written,
                   call, client, fut, res, how, instr, file, wrote>>

ChatStep == HStart \/ HAEnterDone \/ HAfterCall \/ HAExitDone

NextChat == ChildStep \/ WorkerStep \/ CloseStep \/ AdapterStep \/ ChatStep

SpecChat == InitChat /\ [][NextChat]_vars

-----------------------------------------------------------------------------
\* call_tool on its own: what it makes of the `result` of a tools/call reply

\* the longest content list tried
MaxItems == 2

\* the value of the "text" key of a content item: absent, JSON null (any
\* value that is not a string behaves the same), or a string
NoText == "<absent>"
NullText == "<null>"
TextValues == {NoText, NullText, "{\"overall_status\": \"pass\"}", "3", "plain text", ""}

\* a content item: an object with a "type" and a "text", or not an object
ContentItems ==
    [shape : {"object"}, type : {"text", "image", "<absent>"}, text : TextValues]
    \cup {[shape |-> "string", type |-> "<absent>", text |-> NoText]}

ContentLists == UNION {[1..n -> ContentItems] : n \in 0..MaxItems}

\* the `result` member of a reply: not an object (null, a list, a string),
\* or an object whose "content" is absent, not a list, or a list of items
ResultMembers ==
    [shape : {"null", "list", "string"}, content : {"<absent>"}, items : {<<>>}]
    \cup [shape : {"object"}, content : {"<absent>", "null", "string"}, items : {<<>>}]
    \cup [shape : {"object"}, content : {"list"}, items : ContentLists]

NoRaw == [shape |-> "null", content |-> "<absent>", items |-> <<>>]

\* json.loads accepts the string
JsonValid(text) == text \in {"{\"overall_status\": \"pass\"}", "3"}

\* the value json.loads returns for a string it accepts
JsonLoads(text) ==
    CASE text = "{\"overall_status\": \"pass\"}" -> "object overall_status=pass"
      [] text = "3" -> "int 3"
      [] OTHER -> "JSONDecodeError"

\* what call_tool hands back: the raw result itself, a parsed value, the
\* {"raw_text": text} wrapper, or an exception
Unchanged(raw) == [kind |-> "unchanged", v |-> "", raw |-> raw]
Parsed(v) == [kind |-> "parsed", v |-> v, raw |-> NoRaw]
RawText(text) == [kind |-> "raw_text", v |-> text, raw |-> NoRaw]
Raised(e) == [kind |-> "raised", v |-> e, raw |-> NoRaw]

\* first.get("text", "")
TextOf(item) == IF item.text = NoText THEN "" ELSE item.text

\* try: return json.loads(text) / except json.JSONDecodeError: return
\* {"raw_text": text}; json.loads raises TypeError on what is not a string
LoadsOrWrap(text) ==
    IF text = NullText THEN Raised("TypeError")
    ELSE IF JsonValid(text) THEN Parsed(JsonLoads(text))
    ELSE RawText(text)

\* call_tool after _send_request returned raw
CallTool(raw) ==
    IF raw.shape # "object" THEN Unchanged(raw)
    ELSE IF raw.content = "list" /\ raw.items # <<>>
    THEN LET first == raw.items[1]
         IN  IF first.shape = "object" /\ first.type = "text"
             THEN LoadsOrWrap(TextOf(first))
             ELSE Unchanged(raw)
    ELSE Unchanged(raw)

InitUnwrap ==
    /\ mcp_enable = TRUE
    /\ changed = FALSE
    /\ cpc = "u_start"
    /\ Fresh
    /\ Underived
    /\ FirstRun
    /\ arg \in ResultMembers
    /\ val = Unchanged(NoRaw)

\* call_tool returns (or raises)
Unwrap ==
    /\ cpc = "u_start"
    /\ cpc' = "u_done"
    /\ val' = CallTool(arg)
    /\ UNCHANGED <<mcp_enable, changed, deriveVars, twiceVars, arg, childVars,
                   closeVars, w, next_id, written, call, client, fut, res,
                   how, status, instr, file, wrote>>

NextUnwrap == Unwrap

SpecUnwrap == InitUnwrap /\ [][NextUnwrap]_vars

-----------------------------------------------------------------------------
\* The facade methods with optional filters: the `arguments` object each one
\* builds for its tools/call request

\* Python values by their literal; "None" is the value of a parameter that
\* was not supplied
OptionalStr == {"None", "", "runtime"}
OptionalInt == {"None", "0", "5"}
OptionalFloat == {"None", "0.0", "0.5"}
OptionalList == {"None", "[]", "[a]"}

\* the calls tried: every parameter of the method called, "None" for those
\* of the other methods
FacadeCalls ==
    [method : {"get_hotspots_overview"}, slice : OptionalStr, limit : OptionalInt,
     min_risk_score : OptionalFloat, module_ids : {"None"}, paths : {"None"},
     max_actions : {"None"}]
    \cup [method : {"get_change_bundle_suggestions"}, slice : {"", "runtime"},
          limit : OptionalInt, min_risk_score : {"None"},
          module_ids : OptionalList, paths : OptionalList, max_actions : {"None"}]
    \cup [method : {"get_next_actions"}, slice : OptionalStr, limit : {"None"},
          min_risk_score : {"None"}, module_ids : {"None"}, paths : {"None"},
          max_actions : {"0", "5"}]

\* Entry of a method that sets the key whatever the test says
Entry_Always(key, v, test) == {<<key, v>>}

\* `if <test>: args[key] = v`
Entry(key, v, test) == IF test THEN {<<key, v>>} ELSE {}

\* the args dict a facade method hands to _call_tool_safe, as its items
Arguments(c) ==
    CASE c.method = "get_hotspots_overview" ->
           Entry("slice", c.slice, PyTruthy(c.slice))
           \cup Entry("limit", c.limit, c.limit # "None")
           \cup Entry("min_risk_score", c.min_risk_score, c.min_risk_score # "None")
      [] c.method = "get_change_bundle_suggestions" ->
           {<<"slice", c.slice>>}
           \cup Entry("module_ids", c.module_ids, PyTruthy(c.module_ids))
           \cup Entry("paths", c.paths, PyTruthy(c.paths))
           \cup Entry("limit", c.limit, c.limit # "None")
      [] OTHER ->
           {<<"max_actions", c.max_actions>>}
           \cup Entry("slice", c.slice, PyTruthy(c.slice))

InitArgs ==
    /\ mcp_enable = TRUE
    /\ changed = FALSE
    /\ cpc = "f_start"
    /\ Fresh
    /\ Underived
    /\ FirstRun
    /\ arg \in FacadeCalls
    /\ val = {}

\* the facade method builds its arguments
BuildArguments ==
    /\ cpc = "f_start"
    /\ cpc' = "f_built"
    /\ val' = Arguments(arg)
    /\ UNCHANGED <<mcp_enable, changed, deriveVars, twiceVars, arg, childVars,
                   closeVars, w, next_id, written, call, client, fut, res,
                   how, status, instr, file, wrote>>

NextArgs == BuildArguments

SpecArgs == InitArgs /\ [][NextArgs]_vars

-----------------------------------------------------------------------------
\* PRReviewer._merge_review_chunks: the per-chunk reviews of a large PR made
\* into one review

\* the most chunk reviews merged at once
MaxChunks == 2

\* a key the review dict does not have
Absent == "<absent>"

\* the integer 0, as the YAML of a chunk review gives it for `score: 0`
IntZero == "<int 0>"

\* values of 'estimated_effort_to_review_[1-5]', 'score' and
\* 'security_concerns' as the parsed answer of the model holds them
EffortTexts == {Absent, "2", "4, complex", "high"}
ScoreTexts == {Absent, "80", "60/100", "n/a", IntZero}
SecurityTexts == {Absent, "No", "Yes, injection", "Token written to the log"}

KeyIssue(f, a, b, text) ==
    [relevant_file |-> f, start_line |-> a, end_line |-> b, issue_content |-> text]

\* lists of 'key_issues_to_review': two issues on the same file and lines
\* with different texts, and one that differs from them in end_line only
IssueLists ==
    {<<>>,
     <<KeyIssue("a.py", 1, 5, "first")>>,
     <<KeyIssue("a.py", 1, 5, "second"), KeyIssue("a.py", 1, 9, "third")>>,
     <<KeyIssue("b.py", 1, 5, "fourth")>>}

\* the 'review' dict of a chunk; the keys the merge reads and this model
\* leaves absent (relevant_tests, possible_issues, ticket_compliance_check,
\* can_be_split) add nothing to a merged review but possible_issues = "No"
Review(e, sc, sec, iss) ==
    [effort |-> e, score |-> sc, security |-> sec, possible_issues |-> Absent,
     key_issues |-> iss]

\* the chunk reviews tried: every combination of the scalar fields, and
\* every list of key issues
ChunkReviews ==
    {Review(e, sc, sec, <<>>) : e \in EffortTexts, sc \in ScoreTexts, sec \in SecurityTexts}
    \cup {Review(Absent, Absent, Absent, iss) : iss \in IssueLists}

\* int(str(effort).split(',')[0].strip()); -1 stands for ValueError
EffortInt(text) ==
    CASE text = "2" -> 2
      [] text = "4, complex" -> 4
      [] OTHER -> -1

\* int(str(score).split(',')[0].split('/')[0].strip()); -1 for ValueError
ScoreInt(text) ==
    CASE text = "80" -> 80
      [] text = "60/100" -> 60
      [] text = IntZero -> 0
      [] OTHER -> -1

\* `if effort:`, `if score:`, `if sec:` -- the key is there and its value
\* is not falsy
Given(v) == v \notin {Absent, IntZero}

\* f"{n}"
IntText(n) ==
    CASE n = 0 -> "0"
      [] n = 1 -> "1"
      [] n = 2 -> "2"
      [] n = 3 -> "3"
      [] n = 4 -> "4"
      [] n = 60 -> "60"
      [] OTHER -> "80"

SetMax(S) == CHOOSE m \in S : \A x \in S : x <= m
SetMin(S) == CHOOSE m \in S : \A x \in S : m <= x

\* f"{n}, aggregated from {len(chunk_reviews)} review chunks"
Aggregated(n, chunks) ==
    IntText(n) \o ", aggregated from " \o IntText(Len(chunks)) \o " review chunks"

\* MergedEffort taking the effort of the first chunk that has one
MergedEffort_First(chunks) ==
    LET given == {j \in 1..Len(chunks) : EffortInt(chunks[j].effort) # -1}
    IN  IF given = {} THEN Absent
        ELSE Aggregated(EffortInt(chunks[SetMin(given)].effort), chunks)

\* the merged effort: the largest of the efforts that parse
MergedEffort(chunks) ==
    LET efforts == {EffortInt(chunks[i].effort) :
                      i \in {j \in 1..Len(chunks) : Given(chunks[j].effort)}} \ {-1}
    IN  IF efforts = {} THEN Absent ELSE Aggregated(SetMax(efforts), chunks)

\* the merged score: the smallest of the scores that are given and parse
MergedScore(chunks) ==
    LET scores == {ScoreInt(chunks[i].score) :
                     i \in {j \in 1..Len(chunks) : Given(chunks[j].score)}} \ {-1}
    IN  IF scores = {} THEN Absent ELSE Aggregated(SetMin(scores), chunks)

\* v.lower() not in ['no', 'false', 'n/a', 'none', '']
IsConcern(v) == v # "No"

\* 'yes' in v.lower() or 'true' in v.lower()
SaysYes(v) == v = "Yes, injection"

RECURSIVE Join(_)
\* " | ".join(values)
Join(values) ==
    IF values = <<>> THEN ""
    ELSE IF Len(values) = 1 THEN values[1]
    ELSE values[1] \o " | " \o Join(Tail(values))

\* concerns[:3]
FirstThree(values) == SubSeq(values, 1, IF Len(values) < 3 THEN Len(values) ELSE 3)

RECURSIVE SecurityValues(_)
\* the security_concerns values of the chunks that have one, in order
SecurityValues(chunks) ==
    IF chunks = <<>> THEN <<>>
    ELSE (IF Head(chunks).security = Absent THEN <<>> ELSE <<Head(chunks).security>>)
         \o SecurityValues(Tail(chunks))

\* the merged security_concerns: "Yes" with the concerns when one of them
\* holds "yes" or "true", "No" otherwise
MergedSecurity(chunks) ==
    LET values == SecurityValues(chunks)
        concerns == SelectSeq(values, IsConcern)
    IN  IF values = <<>> THEN Absent
        ELSE IF \E i \in 1..Len(concerns) : SaysYes(concerns[i])
             THEN "Yes. " \o Join(FirstThree(concerns))
             ELSE "No"

RECURSIVE AllKeyIssues(_)
\* the key issues of all chunks, in order
AllKeyIssues(chunks) ==
    IF chunks = <<>> THEN <<>>
    ELSE Head(chunks).key_issues \o AllKeyIssues(Tail(chunks))

\* (relevant_file, start_line, end_line)
IssueKey(issue) == <<issue.relevant_file, issue.start_line, issue.end_line>>

\* Dedup keeping every issue
Dedup_KeepsAll(issues, seen) == issues

RECURSIVE Dedup(_, _)
\* the issues whose key was not seen before, in order
Dedup(issues, seen) ==
    IF issues = <<>> THEN <<>>
    ELSE IF IssueKey(Head(issues)) \in seen THEN Dedup(Tail(issues), seen)
    ELSE <<Head(issues)>> \o Dedup(Tail(issues), seen \cup {IssueKey(Head(issues))})

\* what _merge_review_chunks returns: None, the chunk review it was given,
\* or a review it built
NoReview == [kind |-> "None", review |-> Review(Absent, Absent, Absent, <<>>)]
SameChunk(chunk) == [kind |-> "chunk", review |-> chunk]

\* the review built from two or more chunks
Merged(chunks) ==
    [kind |-> "merged",
     review |-> [effort |-> MergedEffort(chunks),
                 score |-> MergedScore(chunks),
                 security |-> MergedSecurity(chunks),
                 possible_issues |-> "No",
                 key_issues |-> Dedup(AllKeyIssues(chunks), {})]]

\* MergeReviewChunks without the shortcut for a single chunk
MergeReviewChunks_MergesSingle(chunks) ==
    IF chunks = <<>> THEN NoReview ELSE Merged(chunks)

\* _merge_review_chunks(chunk_reviews)
MergeReviewChunks(chunks) ==
    IF chunks = <<>> THEN NoReview
    ELSE IF Len(chunks) = 1 THEN SameChunk(chunks[1])
    ELSE Merged(chunks)

InitMerge ==
    /\ mcp_enable = FALSE
    /\ changed = FALSE
    /\ cpc = "m_start"
    /\ Fresh
    /\ Underived
    /\ FirstRun
    /\ arg \in UNION {[1..n -> ChunkReviews] : n \in 0..MaxChunks}
    /\ val = NoReview

\* _merge_review_chunks returns
Merge ==
    /\ cpc = "m_start"
    /\ cpc' = "m_done"
    /\ val' = MergeReviewChunks(arg)
    /\ UNCHANGED <<mcp_enable, changed, deriveVars, twiceVars, arg, childVars,
                   closeVars, w, next_id, written, call, client, fut, res,
                   how, status, instr, file, wrote>>

NextMerge == Merge

SpecMerge == InitMerge /\ [][NextMerge]_vars

-----------------------------------------------------------------------------
\* The derivation of impacted_modules in prepare_brain_context, on its own:
\* any change-impact result of the shapes below and any mcp_max_modules

\* Bound: length of the lists a change-impact result carries.
MaxMods == 2

Min(a, b) == IF a < b THEN a ELSE b

\* sequences over S of length at most n
SeqsUpTo(S, n) == UNION {[1..m -> S] : m \in 0..n}

ModuleIdValues == {"crate::mod1", "crate::mod2"}

\* the change-impact results considered
ChangeImpacts ==
    {NoChangeImpact} \cup
    {[absent |-> FALSE, hasResolved |-> hr, resolved |-> r, hasFlat |-> hf, flat |-> f] :
        hr \in BOOLEAN, r \in SeqsUpTo(ModuleIdValues \cup {""}, MaxMods),
        hf \in BOOLEAN, f \in SeqsUpTo(ModuleIdValues, MaxMods)}

\* a result that carries a list carries the key
WellShaped(ci) ==
    /\ ~ci.hasResolved => ci.resolved = <<>>
    /\ ~ci.hasFlat => ci.flat = <<>>

\* [mod.get("module_id") for mod in ... if mod.get("module_id")]
ResolvedModuleIds(resolved) == SelectSeq(resolved, LAMBDA id : id # "")

\* DeriveImpacted looking at the flat list first
DeriveImpacted_FlatFirst(ci, mx) ==
    LET base == IF ci.absent THEN <<>>
                ELSE IF ci.hasFlat THEN ci.flat
                ELSE IF ci.hasResolved THEN ResolvedModuleIds(ci.resolved)
                ELSE <<>>
    IN  SubSeq(base, 1, Min(mx, Len(base)))

\* impacted_modules from change_impact, then impacted_modules[:max_modules]
DeriveImpacted(ci, mx) ==
    LET base == IF ci.absent THEN <<>>
                ELSE IF ci.hasResolved THEN ResolvedModuleIds(ci.resolved)
                ELSE IF ci.hasFlat THEN ci.flat
                ELSE <<>>
    IN  SubSeq(base, 1, Min(mx, Len(base)))

InitDerive ==
    /\ mcp_enable = TRUE
    /\ changed = FALSE
    /\ cpc = "d_start"
    /\ Fresh
    /\ change_impact \in {ci \in ChangeImpacts : WellShaped(ci)}
    /\ max_modules \in 0..(MaxMods + 1)
    /\ impacted_modules = <<>>
    /\ FirstRun
    /\ NoFunction

Derive ==
    /\ cpc = "d_start"
    /\ impacted_modules' = DeriveImpacted(change_impact, max_modules)
    /\ cpc' = "d_done"
    /\ UNCHANGED <<mcp_enable, changed, change_impact, max_modules, twiceVars,
                   fnVars, childVars, closeVars, w, next_id, written, call,
                   client, fut, res, how, status, instr, file, wrote>>

NextDerive == Derive

SpecDerive == InitDerive /\ [][NextDerive]_vars

------------------------------------------------------------------------------
\* The composer once its facade calls have returned, on its own: the report
\* and the result it makes of the four payloads, next to what
\* handle_status_query makes of the same status overview

\* what a facade call can return: None for a failed call, a payload that
\* unwrapped to an empty object or an empty list, or a payload with data
Payloads == {None, "{}", "[]", "data"}

ComposerInputs ==
    [status_overview : Payloads, change_impact : Payloads,
     hotspots_overview : Payloads, bundle_suggestions : Payloads]

\* the payload as handle_status_query sees it
PayloadShape(v) ==
    CASE v = None -> "none"
      [] ~PyTruthy(v) -> "falsy"
      [] OTHER -> "object"

InitCompose ==
    /\ mcp_enable = TRUE
    /\ changed = FALSE
    /\ cpc = "k_start"
    /\ Fresh
    /\ Underived
    /\ FirstRun
    /\ arg \in ComposerInputs
    /\ val = "none"

\* prepare_brain_context from the render to its return; val is the status
\* handle_status_query returns for the same status overview
Compose ==
    /\ cpc = "k_start"
    /\ cpc' = "k_done"
    /\ IF RenderRaises
       THEN IF Catches("Exception", "TypeError")
            THEN HandleUnavailable("str(e)")
            ELSE /\ status' = "exception"
                 /\ UNCHANGED <<instr, file, wrote>>
       ELSE /\ \E wfails \in BOOLEAN :
                 /\ file' = IF wfails THEN file
                            ELSE MarkdownV2(arg.status_overview)
                 /\ wrote' = WriteOutcome(wrote, wfails)
            /\ status' = StatusOf(arg.status_overview)
            /\ instr' = InstructionsV2(arg.status_overview)
    /\ val' = HandlerStatus(PayloadShape(arg.status_overview))
    /\ UNCHANGED <<mcp_enable, changed, deriveVars, twiceVars, arg, childVars,
                   closeVars, w, next_id, written, call, client, fut, res,
                   how>>

NextCompose == Compose

SpecCompose == InitCompose /\ [][NextCompose]_vars

-----------------------------------------------------------------------------
\* Scheduling: a runnable thread is eventually run and the event loop
\* eventually runs a ready callback.  Nothing is assumed of the child.

Fairness ==
    /\ WF_vars(WorkerStep)
    /\ WF_vars(CloseStep)
    /\ WF_vars(AdapterStep)
    /\ WF_vars(ComposerStep)

FairSpec == Spec /\ Fairness

-----------------------------------------------------------------------------
\* Properties

Requests == SelectSeq(written, LAMBDA m : m.id # 0)

NoToolCallWritten == \A i \in 1..Len(written) : written[i].method # "tools/call"

\* threads that wrote a request and have seen neither its reply nor a failure
InFlight == {k \in Workers : w[k].pc \in {"read", "rblock"}}

\* C1: _call_tool_safe never raises: a call whose call_tool raised (process
\* death, EOF, error response, malformed output), that timed out, or that
\* found no client, returns None; every call returns a value.
C1_CallSafeNeverRaises ==
    \A k \in Calls :
        /\ res[k] \in {None, "data", "raw_text"}
        /\ how[k] \in {"raised", "timeout", "noclient"} => res[k] = None

C1_Witness ==
    /\ \E k \in Calls : how[k] = "raised" /\ res[k] = None
    /\ \E k \in Calls : how[k] = "timeout" /\ res[k] = None

\* C2: whatever noise precedes it, the reply _send_request returns from is
\* an object carrying the id it sent, and the value handed on is built from
\* the result of that very line.
C2_ReturnsMatchingResult ==
    \A k \in Workers :
        w[k].pc \in {"returned", "notify", "constructed"} =>
            /\ w[k].rid # 0
            /\ w[k].src.id = w[k].rid
            /\ k # 0 => w[k].ret = CallToolUnwrap(w[k].src.result)

\* the first facade call returned although the child printed a line besides
\* the two replies
C2_Witness ==
    /\ w[1].pc = "returned"
    /\ w[0].pc = "constructed"
    /\ nout = 3
    /\ pipe = <<>>

\* C3: once readline() has returned the zero-length read, _send_request
\* ends by raising.
C3_EofAlwaysRaises ==
    \A k \in Workers : (w[k].pc = "eof") ~> (w[k].pc \in {"raised", "ended"})

\* C4: a call that timed out returned None and stays answered None when its
\* thread ends later; a call's value only ever comes from its own thread
\* having returned in time.
C4_TimeoutDiscardsOutcome ==
    \A k \in Calls :
        /\ how[k] = "timeout" => res[k] = None
        /\ res[k] # None => how[k] = "returned"

\* an abandoned thread got its reply after a later call was answered
C4_Witness ==
    \E k, j \in Calls :
        /\ k < j
        /\ how[k] = "timeout"
        /\ w[k].pc = "returned"
        /\ res[j] # None

\* C5: at most one request is in flight on the connection.
C5_OneInFlight == Cardinality(InFlight) <= 1

\* C6: the ids of the requests written are strictly increasing from 1.
C6_IdsStrictlyIncreasing ==
    \A i \in 1..Len(Requests) :
        IF i = 1 THEN Requests[i].id = 1
        ELSE Requests[i - 1].id < Requests[i].id

\* C7: two calls in flight together never hold the same request id, and
\* each returns from a reply to its own id.
C7_ConcurrentCallsSafe ==
    /\ \A k, j \in GatherCalls :
          (k # j /\ w[k].rid # 0 /\ w[j].rid # 0) => w[k].rid # w[j].rid
    /\ \A k \in GatherCalls : w[k].pc = "returned" => w[k].src.id = w[k].rid

\* C8: when the constructor raised (Popen failed, or the initialize request
\* failed), the wrapper holds no client, no tools/call is ever written, and
\* the composer returns status unavailable.
C8_InitFailureUnavailable ==
    w[0].pc = "raised" =>
        /\ client # "set"
        /\ NoToolCallWritten
        /\ cpc \notin {"start", "aenter"} =>
              (client = "none" /\ cpc = "done" /\ status = "unavailable")

\* the handshake failed while the child was alive
C8_Witness ==
    /\ w[0].pc = "raised"
    /\ proc = "running"
    /\ cpc = "done"
    /\ Len(written) > 0

\* the constructor thread is waiting for the reply to initialize
AwaitingHandshake == cpc = "aenter" /\ w[0].pc = "read"

\* C9: the wait for the reply to initialize ends, whatever the child does:
\* by a reply, by a failure, or by a timeout when the child stays silent.
C9_HandshakeTimesOut == AwaitingHandshake ~> ~AwaitingHandshake

\* C10: when prepare_brain_context has returned, every child it spawned has
\* been closed: streams closed and the process reaped.
C10_TornDownAtExit ==
    cpc = "done" => (proc = "none" \/ (cin /\ cout /\ cerr /\ reaped))

\* what close() leaves behind: every stream object closed, the child reaped
StreamsClosedAndReaped == cin /\ cout /\ cerr /\ reaped /\ proc = "exited"

\* C11: close() never ends by an exception, also when the child died before
\* it or when it is called a second time; whenever a close() has returned,
\* and all through and after a second close(), the streams are closed and
\* the process is reaped.
C11_CloseIdempotent ==
    /\ closer # "c_raised"
    /\ (closer = "c_done" \/ cpc \in {"g_close2", "g_done2"}) =>
          StreamsClosedAndReaped

\* a second close() returned on a client whose child had died by itself
C11_Witness == cpc = "g_done2" /\ ~termReq

\* C12: with the bridge disabled nothing is spawned, nothing is written to a
\* child or to the context file, and the call returns status unavailable
\* with empty instructions.
C12_DisabledNoSideEffect ==
    ~mcp_enable =>
        /\ file = "absent" /\ wrote = "no"
        /\ proc = "none" /\ written = <<>> /\ w[0].pc = "idle"
        /\ cpc = "done" => (status = "unavailable" /\ instr = "")

C12_Witness == ~mcp_enable /\ cpc = "done"

\* the connection was not established and prepare_brain_context returned
ConnectFailed == cpc = "done" /\ client = "none"

\* C13: when the connection fails to establish the call returns status
\* unavailable, the stub report (with "could not be queried") is what the
\* write puts in the context file, and the instructions say that Brain
\* context is UNAVAILABLE and send the reviewer to standard practices.
C13_ConnectFailureStub ==
    ConnectFailed =>
        /\ status = "unavailable"
        /\ wrote # "no"
        /\ wrote = "ok" => "could not be queried" \in Phrases(file)
        /\ {"Brain MCP context is UNAVAILABLE", "standard best practices"}
              \subseteq Phrases(instr)

\* the handshake failed and the stub is on disk
C13_Witness == ConnectFailed /\ file = "stub" /\ proc # "none"

\* the connection was established and prepare_brain_context returned
LiveAndReturned == cpc = "done" /\ client = "set"

\* C14: with a live connection and a status overview that returned data,
\* the call returns status ok and the report written is the PR snapshot.
C14_OkWithSnapshot ==
    (LiveAndReturned /\ res[1] # None) =>
        /\ status = "ok"
        /\ wrote = "ok" => file = "snapshot"

\* C15: with a live connection and an absent status overview, the call
\* returns status partial, the report says "Brain MCP is unavailable" and
\* the instructions are the unavailable text of the instruction generator.
C15_PartialWithoutStatus ==
    (LiveAndReturned /\ res[1] = None) =>
        /\ status = "partial"
        /\ wrote = "ok" => "Brain MCP is unavailable" \in Phrases(file)
        /\ instr = "v2_unavailable"

\* C16: status is ok only if get_status_overview returned data.
C16_OkOnlyWithStatus == status = "ok" => (client = "set" /\ res[1] # None)

\* the status overview failed on a live connection and the call returned
C16_Witness ==
    LiveAndReturned /\ how[1] \in {"raised", "timeout"} /\ status # "unset"

\* C17: with a live connection the status returned is the one the status
\* overview alone decides (ok with data, partial without), whatever the
\* change-impact, hotspots and bundle-suggestion calls returned.
C17_StatusFromStatusCallAlone == LiveAndReturned => status = StatusOf(res[1])

\* facade call k was attempted
Attempted(k) == fut[k] # "unset"

\* the composer is past its facade calls
PastCalls == client = "set" /\ cpc \in {"aexit", "aexit_ret", "done"}

\* a call is issued only once every call before it in the source order has
\* returned
SequentialOrder ==
    \A k \in Calls : Attempted(k) => \A j \in 1..(k - 1) : fut[j] = "done"

SelectedList(ci) ==
    IF ci.absent THEN <<>>
    ELSE IF ci.hasResolved THEN ResolvedModuleIds(ci.resolved)
    ELSE IF ci.hasFlat THEN ci.flat
    ELSE <<>>

\* C19: impacted_modules is a prefix of the list the precedence selects,
\* never longer than mcp_max_modules, and shorter than that list only when
\* it has mcp_max_modules entries.
C19_DerivedByPrecedence ==
    cpc = "d_done" =>
        LET src == SelectedList(change_impact)
            n == Len(impacted_modules)
        IN  /\ n <= max_modules
            /\ n <= Len(src)
            /\ \A i \in 1..n : impacted_modules[i] = src[i]
            /\ n < Len(src) => n = max_modules

\* both keys present with different lists, and the resolved ids truncated
C19_Witness ==
    /\ cpc = "d_done"
    /\ change_impact.hasResolved /\ change_impact.hasFlat
    /\ change_impact.flat # <<>>
    /\ change_impact.flat # ResolvedModuleIds(change_impact.resolved)
    /\ max_modules = 1
    /\ Len(ResolvedModuleIds(change_impact.resolved)) = 2
    /\ impacted_modules = <<change_impact.resolved[1]>>

\* C20: a run whose write to the context file failed returns what the run
\* with the write succeeding returns (status unavailable and the
\* instructions of _handle_unavailable), and no exception escapes.
C20_WriteFailureKeepsOutcome ==
    (cpc = "done" /\ wrote = "failed") =>
        /\ status = "unavailable"
        /\ instr = "handle_unavailable"

\* the write failed after the calls of a live connection
C20_Witness == LiveAndReturned /\ wrote = "failed"

\* the outcome _handle_unavailable gives a failed connection
UnavailableOutcome(st, ins, fl, wr) ==
    /\ st = "unavailable"
    /\ ins = "handle_unavailable"
    /\ wr \in {"ok", "failed"}
    /\ wr = "ok" => "could not be queried" \in Phrases(fl)

\* C21: once the bridge is enabled prepare_brain_context never raises: an
\* exception that leaves the `async with` block is caught at the top level
\* and the call returns what a failed connection returns -- status
\* unavailable, the stub report and the generic instructions.
C21_NeverRaises ==
    /\ [](status # "exception")
    /\ [](ConnectFailed => UnavailableOutcome(status, instr, file, wrote))
    /\ [][(cpc = "aexit" /\ cpc' = "done") =>
            UnavailableOutcome(status', instr', file', wrote')]_vars

\* an exception raised with a live connection ended in the stub report
C21_Witness == LiveAndReturned /\ file = "stub_exc" /\ status = "unavailable"

\* C23: with the bridge enabled each invocation calls write_text on the
\* context file exactly once: never a second time, and never not at all by
\* the time it returns.
C23_WritesExactlyOnce ==
    mcp_enable =>
        /\ wrote # "twice"
        /\ cpc = "done" => wrote \in {"ok", "failed"}
        /\ wrote = "no" => file = "absent"

\* the single write of an invocation that went through all four calls
C23_Witness ==
    /\ LiveAndReturned
    /\ wrote = "ok"
    /\ \A k \in Calls : Attempted(k)

\* the outcome of `return result` is never taken from an error response,
\* and the server's message is raised only for the awaited id
ErrorResponseRaises ==
    \A k \in Workers :
        /\ w[k].pc \in {"returned", "notify", "constructed"} => ~w[k].src.err
        /\ w[k].exc = "RuntimeError: server message" =>
              /\ w[k].pc = "raised"
              /\ w[k].src.err
              /\ w[k].src.id = w[k].rid

\* C25: a response with the awaited id and a non-empty error makes
\* _send_request fail with the server's message instead of returning the
\* result, and the safe wrapper turns that failure into None.
C25_ErrorResponseFails ==
    /\ []ErrorResponseRaises
    /\ [][\A k \in Calls :
            (/\ w[k].exc = "RuntimeError: server message"
             /\ fut[k] = "pending"
             /\ fut'[k] = "done") => res'[k] = None]_vars

\* _send_request raised the server's message for the awaited id while the
\* wrapper is still awaiting the call
C25_Witness ==
    \E k \in GatherCalls :
        /\ w[k].pc = "raised"
        /\ w[k].exc = "RuntimeError: server message"
        /\ w[k].src.id = w[k].rid
        /\ fut[k] = "pending"

ToolCallsWritten ==
    Cardinality({i \in 1..Len(written) : written[i].method = "tools/call"})

\* C27: no call is retried: a facade invocation writes at most one
\* tools/call request whatever its outcome, so a review writes at most one
\* request for each query it makes.
C27_NoRetry ==
    /\ \A k \in Calls : w[k].sent <= 1
    /\ ToolCallsWritten <= Cardinality({k \in Calls : Attempted(k)})

\* a call failed on an error response after its one request
C27_Witness ==
    \E k \in Calls :
        /\ w[k].pc = "raised"
        /\ w[k].exc = "RuntimeError: server message"
        /\ w[k].sent = 1

\* C29: whatever fails during an enabled review -- the start of the
\* connection, the status query, the write of the file, an exception in the
\* composer -- the instructions returned are a non-empty text telling the
\* reviewer that Brain context is unavailable.
C29_InstructionsNeverEmpty ==
    (mcp_enable /\ cpc = "done") =>
        /\ instr \notin {"", "unset"}
        /\ "Brain MCP context is UNAVAILABLE" \in Phrases(instr)

\* a review whose status query failed and whose write failed too
C29_Witness ==
    /\ LiveAndReturned
    /\ how[1] # "returned"
    /\ wrote = "failed"

\* the second invocation has returned after meeting the same backend
\* behaviour as the first
SecondRunSameBackend == run = 2 /\ cpc = "done" /\ client = prev.client

HandlerReturned == cpc = "h_done"

\* C28: the chat handlers never raise and return a status that is ok or
\* unavailable: ok when the bridge is enabled, the connection was
\* established and the query returned non-empty data the reply could be
\* built from; unavailable when disabled, when the connection failed, when
\* no data came back and when an exception was caught.  A disabled handler
\* spawns no child.
C28_HandlersOkOrUnavailable ==
    /\ status \in {"unset", "ok", "unavailable"}
    /\ HandlerReturned => status \in {"ok", "unavailable"}
    /\ status = "ok" =>
          /\ mcp_enable
          /\ client = "set"
          /\ res[1] # None
          /\ val = "object"
    /\ (HandlerReturned /\ client = "set" /\ val = "object") => status = "ok"
    /\ ~mcp_enable => (proc = "none" /\ w[0].pc = "idle" /\ written = <<>>)

\* handle_next_actions_query returned ok
C28_Witness ==
    /\ HandlerReturned
    /\ arg = "handle_next_actions_query"
    /\ status = "ok"
    /\ reaped

\* the result starts with a text item
FirstIsTextItem(raw) ==
    /\ raw.shape = "object"
    /\ raw.content = "list"
    /\ raw.items # <<>>
    /\ raw.items[1].shape = "object"
    /\ raw.items[1].type = "text"

\* the result has the envelope {content: [{type: "text", text: T}, ...]}
\* with a string T
HasEnvelope(raw) ==
    FirstIsTextItem(raw) /\ raw.items[1].text \notin {NoText, NullText}

\* C24: call_tool returns the parsed JSON value of T for a result
\* {content: [{type: "text", text: T}, ...]} whose T is valid JSON and
\* {raw_text: T} when T is not valid JSON, without raising; a result without
\* that envelope is returned unchanged.
C24_UnwrapsEnvelope ==
    cpc = "u_done" =>
        /\ val.kind # "raised"
        /\ HasEnvelope(arg) =>
              LET T == arg.items[1].text
              IN  IF JsonValid(T) THEN val = Parsed(JsonLoads(T))
                  ELSE val = RawText(T)
        /\ ~FirstIsTextItem(arg) => val = Unchanged(arg)

\* the optional filters of a facade method, by the key they are sent under
OptionalKeys(c) ==
    CASE c.method = "get_hotspots_overview" -> {"slice", "limit", "min_risk_score"}
      [] c.method = "get_change_bundle_suggestions" -> {"module_ids", "paths", "limit"}
      [] OTHER -> {"slice"}

\* the value the call gave for a key
Supplied(c, key) ==
    CASE key = "slice" -> c.slice
      [] key = "limit" -> c.limit
      [] key = "min_risk_score" -> c.min_risk_score
      [] key = "module_ids" -> c.module_ids
      [] key = "paths" -> c.paths
      [] OTHER -> c.max_actions

\* C26: in the arguments a facade method builds, an optional filter that was
\* not supplied is absent, and no key carries a null value; a filter that
\* was supplied with a non-empty value is sent with that value.
C26_UnsuppliedFiltersAbsent ==
    cpc = "f_built" =>
        /\ \A e \in val : e[2] # "None"
        /\ \A key \in OptionalKeys(arg) :
              /\ Supplied(arg, key) = "None" => \A e \in val : e[1] # key
              /\ PyTruthy(Supplied(arg, key)) => <<key, Supplied(arg, key)>> \in val

\* get_change_bundle_suggestions built its arguments without module_ids and
\* limit, neither of which was supplied
C26_Witness ==
    /\ cpc = "f_built"
    /\ arg.method = "get_change_bundle_suggestions"
    /\ arg.module_ids = "None"
    /\ arg.limit = "None"
    /\ arg.paths = "[a]"
    /\ val = {<<"slice", arg.slice>>, <<"paths", "[a]">>}

\* C30: _merge_review_chunks returns None for an empty list of chunk
\* reviews, and for a list of one it returns that chunk review itself,
\* unchanged.
C30_EmptyAndSingle ==
    cpc = "m_done" =>
        /\ arg = <<>> => val.kind = "None"
        /\ Len(arg) = 1 => val = SameChunk(arg[1])

\* a single chunk with an effort, a score and a concern came back as it was
C30_Witness ==
    /\ cpc = "m_done"
    /\ Len(arg) = 1
    /\ arg[1].effort = "4, complex"
    /\ arg[1].score = "60/100"
    /\ arg[1].security = "Yes, injection"
    /\ val.review = arg[1]

\* two or more chunk reviews were merged
MergedSeveral == cpc = "m_done" /\ Len(arg) >= 2

\* the integers the chunks' scores parse to
ParsedScores(chunks) ==
    {ScoreInt(chunks[i].score) :
       i \in {j \in 1..Len(chunks) : chunks[j].score # Absent}} \ {-1}

\* C31: for two or more chunk reviews the merged score is the smallest of
\* the integers the chunks' scores parse to ("N", "N/100", "N, text";
\* unparseable ones ignored), marked as aggregated.
C31_ScoreIsMinimum ==
    (MergedSeveral /\ ParsedScores(arg) # {}) =>
        val.review.score = Aggregated(SetMin(ParsedScores(arg)), arg)

\* the integers the chunks' efforts parse to
ParsedEfforts(chunks) ==
    {EffortInt(chunks[i].effort) :
       i \in {j \in 1..Len(chunks) : chunks[j].effort # Absent}} \ {-1}

\* C32: for two or more chunk reviews the merged effort to review is the
\* largest of the integers the chunks' efforts parse to, marked as
\* aggregated.
C32_EffortIsMaximum ==
    MergedSeveral =>
        IF ParsedEfforts(arg) = {} THEN val.review.effort = Absent
        ELSE val.review.effort = Aggregated(SetMax(ParsedEfforts(arg)), arg)

\* the larger effort came second
C32_Witness ==
    /\ MergedSeveral
    /\ arg[1].effort = "2"
    /\ arg[2].effort = "4, complex"
    /\ val.review.effort = "4, aggregated from 2 review chunks"

\* the chunk's security_concerns is a value other than no/false/n/a/none
\* and empty
ReportsConcern(chunk) == chunk.security \notin {Absent, "No"}

\* C33: merged security concerns use OR logic: when a chunk reports a
\* concern the merged review says "Yes" followed by the concern texts, and
\* it says "No" only when every chunk that has the field says no.
C33_SecurityIsOr ==
    MergedSeveral =>
        LET concerns == SelectSeq(SecurityValues(arg), IsConcern)
        IN  /\ (\E i \in 1..Len(arg) : ReportsConcern(arg[i])) =>
                  val.review.security = "Yes. " \o Join(FirstThree(concerns))
            /\ val.review.security = "No" =>
                  \A i \in 1..Len(arg) : ~ReportsConcern(arg[i])

\* the issues of all chunks in chunk order, and the places in that list
\* whose (relevant_file, start_line, end_line) did not occur before
IssuesInOrder == AllKeyIssues(arg)
FirstOccurrences ==
    {i \in 1..Len(IssuesInOrder) :
       \A j \in 1..(i - 1) : IssueKey(IssuesInOrder[j]) # IssueKey(IssuesInOrder[i])}

\* C34: the merged key_issues_to_review is the chunks' issues in chunk
\* order without the duplicates, two issues being duplicates exactly when
\* their (relevant_file, start_line, end_line) are equal; the first
\* occurrence is the one kept.
C34_KeyIssuesDeduplicated ==
    MergedSeveral =>
        LET out == val.review.key_issues
        IN  /\ Len(out) = Cardinality(FirstOccurrences)
            /\ \E f \in [1..Len(out) -> FirstOccurrences] :
                  /\ \A m, n \in 1..Len(out) : m < n => f[m] < f[n]
                  /\ \A n \in 1..Len(out) : out[n] = IssuesInOrder[f[n]]

\* the second chunk repeated the place of the first chunk's issue with
\* another text and added an issue of its own
C34_Witness ==
    /\ MergedSeveral
    /\ Len(arg[1].key_issues) = 1
    /\ Len(arg[2].key_issues) = 2
    /\ IssueKey(arg[2].key_issues[1]) = IssueKey(arg[1].key_issues[1])
    /\ val.review.key_issues = <<arg[1].key_issues[1], arg[2].key_issues[2]>>

\* the exceptions _send_request raises out of a line it has read
RaisedFromLine == {"AttributeError", "RuntimeError: server message"}

\* C35: while a response is awaited, a line that is not the matching
\* response -- unparseable, an object with another id or none, a JSON value
\* that is not an object -- is discarded and never fails the request: a
\* request fails on a line only when the line is its own response.
C35_NonMatchingDiscarded ==
    \A k \in Workers :
        w[k].exc \in RaisedFromLine => w[k].src.id = w[k].rid

\* where the notification and the tool calls stand among the lines written
NotificationAt == {i \in 1..Len(written) : written[i].method = "notifications/initialized"}
ToolCallAt == {i \in 1..Len(written) : written[i].method = "tools/call"}

\* C36: the handshake is ordered: the first line written is the initialize
\* request; notifications/initialized is written only once the response to
\* initialize has been received; no tools/call is written before both; the
\* notification takes no request id and waits for no reply.
C36_HandshakeOrdered ==
    /\ [](/\ Len(written) >= 1 => written[1] = [id |-> 1, method |-> "initialize"]
          /\ \A i \in NotificationAt :
                /\ i = 2
                /\ written[i].id = 0
                /\ w[0].src.id = written[1].id /\ ~w[0].src.err
          /\ \A i \in ToolCallAt : i >= 3 /\ NotificationAt # {}
          /\ (w[0].pc \in {"notify", "constructed"} /\ fut[1] = "unset") => next_id = 2)
    /\ [][(w[0].pc = "notify" /\ w'[0].pc = "constructed") =>
            (pipe' = pipe /\ next_id' = next_id)]_vars

\* the handshake and one tool call are on the wire
C36_Witness ==
    /\ Len(written) = 3
    /\ written[2].method = "notifications/initialized"
    /\ written[3] = [id |-> 2, method |-> "tools/call"]

\* the steps of close(), in the order of the code; a second close() starts
\* where the first ended
CloseOrder ==
    {<<"idle", "c_in">>, <<"c_in", "c_out">>, <<"c_out", "c_err">>,
     <<"c_err", "c_term">>, <<"c_term", "c_wait">>, <<"c_wait", "c_done">>,
     <<"c_done", "c_in">>}

\* C37: close() shuts down in a fixed order: stdin, stdout and stderr are
\* closed first, then termination is requested, then the process is waited
\* for; a stream whose close fails does not keep termination from being
\* requested nor the process from being reaped.
C37_CloseOrdered ==
    /\ [](/\ closer \in {"c_term", "c_wait", "c_done"} => (cin /\ cout /\ cerr)
          /\ closer = "c_out" => cin
          /\ closer = "c_err" => (cin /\ cout)
          /\ termReq => (cin /\ cout /\ cerr)
          /\ reaped => (cin /\ cout /\ cerr)
          /\ closer = "c_done" => reaped
          /\ swallowed => closer \in {"c_out", "c_err", "c_term", "c_wait"})
    /\ [][closer' # closer => <<closer, closer'>> \in CloseOrder]_vars

\* terminate() has been called in a close() whose stdin.close() raised
C37_Witness == closer = "c_wait" /\ swallowed /\ cin /\ cout /\ cerr

\* the line at the head of the pipe is the reply call j is waiting for
ReplyFor(j) ==
    /\ pipe # <<>>
    /\ Head(pipe).kind = "obj"
    /\ fut[j] = "pending"
    /\ w[j].pc \in {"read", "rblock"}
    /\ Head(pipe).id = w[j].rid

\* C38: after a call has timed out and been abandoned, the reply the child
\* sends to a later call that is still awaited is read by that call: no
\* other thread reading the same stdout takes the line and drops it.
C38_LaterCallGetsReply ==
    [][(/\ TimedOut # {}
        /\ \E j \in Calls : ReplyFor(j)
        /\ pipe' = Tail(pipe))
       => \E j \in Calls : ReplyFor(j) /\ w'[j].pc \notin {"read", "rblock"}]_vars

\* the composer has left the scope of the wrapper and awaits __aexit__
InTeardown == client = "set" /\ cpc \in {"aexit", "aexit_ret"}

\* C39: after a successful handshake prepare_brain_context returns whatever
\* the child does: every call has ended, by its timeout if the child stayed
\* silent, and the teardown at scope exit completes although abandoned
\* threads are still blocked reading the child's output.  A child that
\* outlives terminate() is left aside: the teardown at least gets as far as
\* terminating the child.
C39_AlwaysReturns == InTeardown ~> (cpc = "done" \/ termReq)

\* C40: a status overview that came back over the transport but unwrapped
\* to an empty object or an empty list counts as a failed call: the composer
\* returns status partial with the unavailable report and instructions, and
\* handle_status_query returns unavailable.
C40_FalsyStatusIsPartial ==
    (cpc = "k_done" /\ arg.status_overview \in {"{}", "[]"}) =>
        /\ status = "partial"
        /\ wrote = "ok" => "Brain MCP is unavailable" \in Phrases(file)
        /\ instr = "v2_unavailable"
        /\ val = "unavailable"

====
